---- MODULE Spec2Model ----
(***************************************************************************)
(* Model of pump_swap_mc.py: class PumpSwapMarketCap and the script body.  *)
(*                                                                         *)
(* One run is: the constructor (supply resolver, pool locator, pool key    *)
(* decoder, token decimals lookup) followed by get_market_cap (reserve     *)
(* reader, price division, oracle request, result record).  Every RPC or   *)
(* HTTP call is an input of the environment: its answer is chosen with \E  *)
(* from a bounded set, an exception being one of the answers.              *)
(*                                                                         *)
(* Optional values (Python None) are sequences of length 0 or 1, so that   *)
(* a value and its absence stay comparable.  Floats are exact rationals    *)
(* <<n, d>> in lowest terms with d > 0.                                    *)
(***************************************************************************)
EXTENDS Integers, Sequences, FiniteSets, TLC

VARIABLES
    pc,              \* position of the run in the script / constructor / get_market_cap
    err,             \* the exception that ended the run, "" while none
    steps,           \* the operations performed after the supply resolver (set of names)
    total_supply,    \* self.total_supply: <<>> is None, <<s>> a number
    quote_decimals,  \* self.quote_decimals
    token_decimals,  \* self.token_decimals: <<>> until assigned
    pool_id,         \* self.pool_id: <<>> is None, <<p>> an account handle
    pool_keys,       \* self.pool_keys: <<>> is None, <<k>> a PoolKeys record
    filt,            \* _fetch_pool_from_rpc: index of the current filter set
    resp_len,        \* _fetch_pool_from_rpc: number of accounts in resp.value
    idx,             \* _fetch_pool_from_rpc: position of acct in resp.value
    best,            \* _fetch_pool_from_rpc: local best
    max_liq,         \* _fetch_pool_from_rpc: local max_liq
    seen,            \* the candidates enumerated so far, in order, with their outcome
    fixture,         \* the field values the fetched pool account was built from
    account_data,    \* info.data: the raw bytes of the pool account
    reserves,        \* get_market_cap: <<base_reserve, quote_reserve>>, <<>> before the read
    token_amt_mint,  \* the mint held by the account token_amt was computed from
    token_price_sol, \* get_market_cap: local token_price_sol, <<>> before the division
    sol_usd,         \* get_market_cap: local sol_usd, <<>> before the oracle request
    result           \* the MarketCapData returned: <<>> while none

vars == <<pc, err, steps, total_supply, quote_decimals, token_decimals, pool_id,
          pool_keys, filt, resp_len, idx, best, max_liq, seen, fixture,
          account_data, reserves, token_amt_mint, token_price_sol, sol_usd, result>>

(***************************************************************************)
(* Bounds of the model.                                                    *)
(***************************************************************************)
MaxCands == 2      \* accounts returned by one get_program_accounts call
MaxBal == 2        \* largest token-account balance read during the scan
MaxSupply == 2     \* largest small total supply
MaxDecimals == 2   \* largest small decimal precision
MaxAddrKey == 1    \* address values of a decoder fixture are Addr(0..MaxAddrKey)

(***************************************************************************)
(* Program constants.                                                      *)
(***************************************************************************)
DefaultQuoteDecimals == 9
NumFilterSets == 2
BaseAccStart == 139
BaseAccEnd == 171
QuoteAccEnd == 203
PubkeyLen == 32

None == <<>>
Some(x) == <<x>>
IsNone(o) == o = <<>>
Val(o) == o[1]

(***************************************************************************)
(* Addresses are 32-byte values.  Addr(k) is a family of distinct ones in  *)
(* which no window that straddles two addresses is itself an address.      *)
(***************************************************************************)
Addr(k) == [i \in 1..PubkeyLen |-> (16 * k + i) % 256]
MINT == Addr(14)    \* self.mint_pubkey
WSOL == Addr(15)

RECURSIVE SumSizes(_, _)
SumSizes(layout, n) ==
    IF n = 0 THEN 0 ELSE layout[n].size + SumSizes(layout, n - 1)

RECURSIVE IntLE(_)
\* Int8ul / Int16ul / Int64ul: little-endian unsigned integer of a byte string
IntLE(bytes) ==
    IF bytes = <<>> THEN 0 ELSE Head(bytes) + 256 * IntLE(Tail(bytes))

\* the layout with index read as Int8ul
PoolLayoutShortIndex ==
    << [name |-> "padding",                  size |-> 8],
       [name |-> "pool_bump",                size |-> 1],
       [name |-> "index",                    size |-> 1],
       [name |-> "creator",                  size |-> 32],
       [name |-> "base_mint",                size |-> 32],
       [name |-> "quote_mint",               size |-> 32],
       [name |-> "lp_mint",                  size |-> 32],
       [name |-> "pool_base_token_account",  size |-> 32],
       [name |-> "pool_quote_token_account", size |-> 32],
       [name |-> "lp_supply",                size |-> 8],
       [name |-> "coin_creator",             size |-> 32] >>

(***************************************************************************)
(* POOL_LAYOUT: the construct Struct, as its fields in order.  A field's   *)
(* offset is the sum of the sizes before it, as construct parses a Struct. *)
(***************************************************************************)
POOL_LAYOUT ==
    << [name |-> "padding",                  size |-> 8],
       [name |-> "pool_bump",                size |-> 1],
       [name |-> "index",                    size |-> 2],
       [name |-> "creator",                  size |-> 32],
       [name |-> "base_mint",                size |-> 32],
       [name |-> "quote_mint",               size |-> 32],
       [name |-> "lp_mint",                  size |-> 32],
       [name |-> "pool_base_token_account",  size |-> 32],
       [name |-> "pool_quote_token_account", size |-> 32],
       [name |-> "lp_supply",                size |-> 8],
       [name |-> "coin_creator",             size |-> 32] >>

LayoutSize == SumSizes(POOL_LAYOUT, Len(POOL_LAYOUT))

FieldIndex(name) == CHOOSE k \in 1..Len(POOL_LAYOUT) : POOL_LAYOUT[k].name = name

\* the bytes construct hands to the field called name
FieldBytes(data, name) ==
    LET k   == FieldIndex(name)
        off == SumSizes(POOL_LAYOUT, k - 1)
    IN  SubSeq(data, off + 1, off + POOL_LAYOUT[k].size)

\* POOL_LAYOUT.parse(data): None stands for the StreamError of a short buffer;
\* bytes after the last field are ignored
LayoutParse(data) ==
    IF Len(data) < LayoutSize
    THEN None
    ELSE Some([pool_bump                |-> IntLE(FieldBytes(data, "pool_bump")),
               index                    |-> IntLE(FieldBytes(data, "index")),
               creator                  |-> FieldBytes(data, "creator"),
               base_mint                |-> FieldBytes(data, "base_mint"),
               quote_mint               |-> FieldBytes(data, "quote_mint"),
               lp_mint                  |-> FieldBytes(data, "lp_mint"),
               pool_base_token_account  |-> FieldBytes(data, "pool_base_token_account"),
               pool_quote_token_account |-> FieldBytes(data, "pool_quote_token_account"),
               lp_supply                |-> IntLE(FieldBytes(data, "lp_supply")),
               coin_creator             |-> FieldBytes(data, "coin_creator")])

\* the PoolKeys(...) built by _fetch_pool_keys from the parsed record
MakePoolKeys(amm, decoded) ==
    [amm                      |-> amm,
     base_mint                |-> decoded.base_mint,
     quote_mint               |-> decoded.quote_mint,
     pool_base_token_account  |-> decoded.pool_base_token_account,
     pool_quote_token_account |-> decoded.pool_quote_token_account,
     creator                  |-> decoded.coin_creator]

\* the body of the try block of _fetch_pool_keys; None is the except branch
DecodePoolKeys(amm, data) ==
    LET decoded == LayoutParse(data)
    IN  IF IsNone(decoded) THEN None ELSE Some(MakePoolKeys(amm, Val(decoded)))

(***************************************************************************)
(* A pool account as it is laid out on chain, built from its field values. *)
(* delta is the number of bytes missing from (-) or following (+) the      *)
(* record.                                                                 *)
(***************************************************************************)
RECURSIVE BytesLE(_, _)
BytesLE(v, n) ==
    IF n = 0 THEN <<>> ELSE <<v % 256>> \o BytesLE(v \div 256, n - 1)

Discriminator == [i \in 1..8 |-> 240 + i]

PoolAccountBytes(f) ==
    LET full == Discriminator \o BytesLE(f.pool_bump, 1) \o BytesLE(f.index, 2)
                \o f.creator \o f.base_mint \o f.quote_mint \o f.lp_mint
                \o f.pool_base_token_account \o f.pool_quote_token_account
                \o BytesLE(f.lp_supply, 8) \o f.coin_creator
    IN  IF f.delta < 0 THEN SubSeq(full, 1, Len(full) + f.delta)
        ELSE full \o [i \in 1..f.delta |-> 7]

(***************************************************************************)
(* Exact rational arithmetic for the float expressions of get_market_cap.  *)
(***************************************************************************)
RECURSIVE GCD(_, _)
GCD(a, b) == IF b = 0 THEN a ELSE GCD(b, a % b)

RECURSIVE Pow10(_)
Pow10(n) == IF n = 0 THEN 1 ELSE 10 * Pow10(n - 1)

Rat(n, d) == LET g == GCD(n, d) IN IF n = 0 THEN <<0, 1>> ELSE <<n \div g, d \div g>>

RatMul(a, b) ==
    LET x == Rat(a[1], b[2])
        y == Rat(b[1], a[2])
    IN  Rat(x[1] * y[1], x[2] * y[2])

\* a / b for b # 0
RatDiv(a, b) == RatMul(a, <<b[2], b[1]>>)

\* the base reserve taken unscaled
TokenAmtUnscaled(base_reserve, td) == Rat(base_reserve, 1)

\* line 156: token_amt = base_reserve / (10 ** self.token_decimals)
TokenAmt(base_reserve, td) == Rat(base_reserve, Pow10(td))

\* line 157: sol_amt = quote_reserve / (10 ** self.quote_decimals)
SolAmt(quote_reserve, qd) == Rat(quote_reserve, Pow10(qd))

\* line 159: token_price_sol = sol_amt / token_amt
TokenPriceSol(sol_amt, token_amt) == RatDiv(sol_amt, token_amt)

\* line 161: token_price_usd = token_price_sol * sol_usd
TokenPriceUsd(price_sol, usd) == RatMul(price_sol, Rat(usd, 1))

\* line 162: market_cap_usd = token_price_usd * self.total_supply
MarketCapUsd(price_usd, supply) == RatMul(price_usd, Rat(supply, 1))

(***************************************************************************)
(* The pool locator's pure parts.                                          *)
(***************************************************************************)
\* data[lo:hi] handed to Pubkey.from_bytes: None when it is not 32 bytes long
PubkeyFromSlice(data, lo, hi) ==
    LET top == IF hi < Len(data) THEN hi ELSE Len(data)
        s   == SubSeq(data, lo + 1, top)
    IN  IF Len(s) = PubkeyLen THEN Some(s) ELSE None

\* the two balances added instead of multiplied
LiquiditySum(bal_base, bal_quote) == bal_base + bal_quote

\* line 111: liq = bal_base * bal_quote
Liquidity(bal_base, bal_quote) == bal_base * bal_quote

\* best is replaced but the running maximum is not raised
UpdateBestStaleMax(b, m, pool, liq) ==
    IF liq > m THEN [best |-> Some(pool), max_liq |-> m]
               ELSE [best |-> b, max_liq |-> m]

\* the comparison admits an equal score
UpdateBestOnTie(b, m, pool, liq) ==
    IF liq >= m THEN [best |-> Some(pool), max_liq |-> liq]
                ELSE [best |-> b, max_liq |-> m]

\* lines 115-117: if liq > max_liq: max_liq = liq; best = str(acct.pubkey)
UpdateBest(b, m, pool, liq) ==
    IF liq > m THEN [best |-> Some(pool), max_liq |-> liq]
               ELSE [best |-> b, max_liq |-> m]

\* break instead of continue: the rest of resp.value is dropped
BreakAfterError(i, n) == n + 1

\* lines 112-113: except Exception: continue -- the next position of the inner loop
NextAfterError(i, n) == i + 1

\* line 64: if not self.pool_id
PoolMissing(p) == IsNone(p)

\* the check of line 69 left out
KeysNeverMissing(k) == FALSE

\* line 69: if not self.pool_keys
KeysMissing(k) == IsNone(k)

(***************************************************************************)
(* The chain, as far as the run reads it.  A pool returned for filter set  *)
(* 1 has the target mint at offset 43 (base_mint) and WSOL at offset 75    *)
(* (quote_mint); a pool returned for filter set 2 has them reversed: that  *)
(* is what the two memcmp filters of lines 80-89 select.                   *)
(***************************************************************************)
ChainPool(pool, delta) ==
    [pool_bump                |-> 255,
     index                    |-> pool.idx,
     creator                  |-> Addr(0),
     base_mint                |-> IF pool.set = 1 THEN MINT ELSE WSOL,
     quote_mint               |-> IF pool.set = 1 THEN WSOL ELSE MINT,
     lp_mint                  |-> Addr(1),
     pool_base_token_account  |-> Addr(2 * pool.idx),
     pool_quote_token_account |-> Addr(2 * pool.idx + 1),
     lp_supply                |-> 1000,
     coin_creator             |-> Addr(13),
     delta                    |-> delta]

\* lengths of a pool account: cut inside the base reserve address, the record
\* without its trailing coin_creator, the whole record, the record and one byte
CandidateDeltas == {0 - 100, 0 - 32, 0, 1}
PoolDeltas == {0 - 32, 0, 1}

NoFixture == ChainPool([set |-> 0, idx |-> 0], 0)

Balances == 0..MaxBal
SmallSupplies == 0..MaxSupply

\* inputs of a whole run
RunSupplies == {0, 1000000}
RunTokenDecimals == {6, 9}
ReservePairs == (Balances \X Balances) \cup {<<1000000000, 2000000000>>}
OraclePrices == {1, 100}

\* configurations of a constructed object, for the calculator on its own
CalcConfigs ==
    ((0..MaxDecimals) \X (0..MaxDecimals) \X SmallSupplies)
        \cup {<<9, 9, 1000000>>, <<6, 9, 1000000>>}

\* fixtures of the decoder on its own
AddrValues == {Addr(k) : k \in 0..MaxAddrKey}
Fixtures ==
    [pool_bump                : {0, 254},
     index                    : {1, 513},
     creator                  : AddrValues,
     base_mint                : AddrValues,
     quote_mint               : AddrValues,
     lp_mint                  : AddrValues,
     pool_base_token_account  : AddrValues,
     pool_quote_token_account : AddrValues,
     lp_supply                : {0, 66051},
     coin_creator             : AddrValues,
     delta                    : {0 - 1, 0, 1}]

(***************************************************************************)
(* The state after `pump_swap_mc = PumpSwapMarketCap(rpc_url, mint_str)`   *)
(* has been entered: nothing fetched, the locator's locals at lines 91-92. *)
(***************************************************************************)
NoLocatorFrame ==
    /\ filt = 1
    /\ resp_len = 0
    /\ idx = 1
    /\ best = None
    /\ max_liq = 0
    /\ seen = <<>>

NothingComputed ==
    /\ reserves = None
    /\ token_amt_mint = None
    /\ token_price_sol = None
    /\ sol_usd = None
    /\ result = None

Init ==
    /\ pc = "start"
    /\ err = ""
    /\ steps = {}
    /\ quote_decimals = DefaultQuoteDecimals
    /\ total_supply = None
    /\ token_decimals = None
    /\ pool_id = None
    /\ pool_keys = None
    /\ fixture = NoFixture
    /\ account_data = <<>>
    /\ NoLocatorFrame
    /\ NothingComputed

\* raise: the run ends with exception e
Raise(e) ==
    /\ pc' = "aborted"
    /\ err' = e

Did(op) == steps' = steps \cup {op}

(***************************************************************************)
(* __init__, lines 56-61: the supply resolver.                             *)
(***************************************************************************)
SupplyGiven ==
    /\ pc = "start"
    /\ \E s \in RunSupplies : total_supply' = Some(s)
    /\ pc' = "locate"
    /\ UNCHANGED <<err, steps, quote_decimals, token_decimals, pool_id, pool_keys,
                   filt, resp_len, idx, best, max_liq, seen, fixture,
                   account_data, reserves, token_amt_mint, token_price_sol, sol_usd,
                   result>>

\* get_token_supply answers; ui_amount is a number or null
SupplyQueried ==
    /\ pc = "start"
    /\ \E ui \in {None} \cup {Some(s) : s \in RunSupplies} : total_supply' = ui
    /\ pc' = "locate"
    /\ UNCHANGED <<err, steps, quote_decimals, token_decimals, pool_id, pool_keys,
                   filt, resp_len, idx, best, max_liq, seen, fixture,
                   account_data, reserves, token_amt_mint, token_price_sol, sol_usd,
                   result>>

\* get_token_supply raises, or its answer has no value (.value.ui_amount fails)
SupplyQueryFails ==
    /\ pc = "start"
    /\ \E e \in {"RPCException", "AttributeError: no value"} : Raise(e)
    /\ UNCHANGED <<steps, total_supply, quote_decimals, token_decimals, pool_id, pool_keys,
                   filt, resp_len, idx, best, max_liq, seen, fixture,
                   account_data, reserves, token_amt_mint, token_price_sol, sol_usd,
                   result>>

(***************************************************************************)
(* _fetch_pool_from_rpc, lines 94-119.                                     *)
(***************************************************************************)
\* lines 94-96: the next filter set's accounts arrive
GetProgramAccounts ==
    /\ pc = "locate"
    /\ Did("get_program_accounts")
    /\ \E n \in 0..MaxCands : resp_len' = n
    /\ idx' = 1
    /\ pc' = "scan"
    /\ UNCHANGED <<err, total_supply, quote_decimals, token_decimals, pool_id,
                   pool_keys, filt, best, max_liq, seen, fixture,
                   account_data, reserves, token_amt_mint, token_price_sol, sol_usd,
                   result>>

\* line 94, and lines 119 and 63 once filters_list is exhausted: the loop takes
\* the next filter set, or the locator returns best and self.pool_id is set
NextFilterSet ==
    IF filt < NumFilterSets
    THEN /\ filt' = filt + 1
         /\ pc' = "locate"
         /\ pool_id' = pool_id
    ELSE /\ filt' = filt
         /\ pc' = "check_pool"
         /\ pool_id' = best

\* lines 97-98: get_program_accounts raises, the filter set is passed over
GetProgramAccountsFails ==
    /\ pc = "locate"
    /\ Did("get_program_accounts")
    /\ NextFilterSet
    /\ UNCHANGED <<err, total_supply, quote_decimals, token_decimals,
                   pool_keys, resp_len, idx, best, max_liq, seen, fixture,
                   account_data, reserves, token_amt_mint, token_price_sol, sol_usd,
                   result>>

Acct == [set |-> filt, idx |-> idx]

\* lines 105-111: the scores two balances of the chain can give
Scores == {Liquidity(bal_base, bal_quote) : bal_base \in Balances, bal_quote \in Balances}

\* what the try block of lines 101-111 reads of a candidate: its data, and
\* whether each balance request it gets to make is answered (the balance) or raises
Extracted(delta) ==
    LET data == PoolAccountBytes(ChainPool(Acct, delta))
    IN  /\ ~IsNone(PubkeyFromSlice(data, BaseAccStart, BaseAccEnd))
        /\ ~IsNone(PubkeyFromSlice(data, BaseAccEnd, QuoteAccEnd))

\* lines 112-113 reached from 103-104: an address cannot be extracted
CandidateExtractFails ==
    /\ pc = "scan"
    /\ idx <= resp_len
    /\ {delta \in CandidateDeltas : ~Extracted(delta)} # {}
    /\ seen' = Append(seen, [pool |-> Acct, ok |-> FALSE, liq |-> 0])
    /\ idx' = NextAfterError(idx, resp_len)
    /\ UNCHANGED <<pc, err, steps, total_supply, quote_decimals, token_decimals,
                   pool_id, pool_keys, filt, resp_len, best, max_liq,
                   fixture, account_data, reserves, token_amt_mint, token_price_sol,
                   sol_usd, result>>

\* lines 112-113 reached from 105-110: the base or the quote balance request raises
CandidateBalanceFails ==
    /\ pc = "scan"
    /\ idx <= resp_len
    /\ {delta \in CandidateDeltas : Extracted(delta)} # {}
    /\ Did("get_token_account_balance")
    /\ seen' = Append(seen, [pool |-> Acct, ok |-> FALSE, liq |-> 0])
    /\ idx' = NextAfterError(idx, resp_len)
    /\ UNCHANGED <<pc, err, total_supply, quote_decimals, token_decimals,
                   pool_id, pool_keys, filt, resp_len, best, max_liq,
                   fixture, account_data, reserves, token_amt_mint, token_price_sol,
                   sol_usd, result>>

\* lines 101-117 without an exception: the candidate is scored
CandidateScored ==
    /\ pc = "scan"
    /\ idx <= resp_len
    /\ {delta \in CandidateDeltas : Extracted(delta)} # {}
    /\ Did("get_token_account_balance")
    /\ \E liq \in Scores :
          LET upd == UpdateBest(best, max_liq, Acct, liq)
          IN  /\ best' = upd.best
              /\ max_liq' = upd.max_liq
              /\ seen' = Append(seen, [pool |-> Acct, ok |-> TRUE, liq |-> liq])
    /\ idx' = idx + 1
    /\ UNCHANGED <<pc, err, total_supply, quote_decimals, token_decimals,
                   pool_id, pool_keys, filt, resp_len, fixture, account_data,
                   reserves, token_amt_mint, token_price_sol, sol_usd, result>>

\* line 100: resp.value is exhausted
EndOfAccounts ==
    /\ pc = "scan"
    /\ idx > resp_len
    /\ NextFilterSet
    /\ UNCHANGED <<err, steps, total_supply, quote_decimals, token_decimals,
                   pool_keys, resp_len, idx, best, max_liq, seen, fixture,
                   account_data, reserves, token_amt_mint, token_price_sol, sol_usd,
                   result>>

(***************************************************************************)
(* __init__, lines 64-75.                                                  *)
(***************************************************************************)
\* lines 64-66; the locator's frame is dropped once its result is consumed
CheckPool ==
    /\ pc = "check_pool"
    /\ IF PoolMissing(pool_id)
       THEN Raise("RuntimeError: No pool found")
       ELSE pc' = "fetch_keys" /\ err' = err
    /\ filt' = 1
    /\ resp_len' = 0
    /\ idx' = 1
    /\ best' = None
    /\ max_liq' = 0
    /\ seen' = <<>>
    /\ UNCHANGED <<steps, total_supply, quote_decimals, token_decimals, pool_id,
                   pool_keys, fixture, account_data, reserves, token_amt_mint,
                   token_price_sol, sol_usd, result>>

\* the pool accounts the chain may hold for the located pool
RunPoolAccounts == {ChainPool(Val(pool_id), d) : d \in PoolDeltas}

\* lines 68, 121-135: the account is fetched and parsed (136-137 when parse raises)
FetchPoolKeys(accounts) ==
    /\ pc = "fetch_keys"
    /\ Did("get_account_info_pool")
    /\ \E fx \in accounts :
          /\ fixture' = fx
          /\ account_data' = PoolAccountBytes(fx)
          /\ pool_keys' = DecodePoolKeys(Val(pool_id), PoolAccountBytes(fx))
    /\ pc' = "check_keys"
    /\ UNCHANGED <<err, total_supply, quote_decimals, token_decimals, pool_id,
                   filt, resp_len, idx, best, max_liq, seen, reserves,
                   token_amt_mint, token_price_sol, sol_usd, result>>

\* lines 124-126 raise (RPC error, or no such account: value is None): 136-137
FetchPoolKeysFails ==
    /\ pc = "fetch_keys"
    /\ Did("get_account_info_pool")
    /\ pool_keys' = None
    /\ pc' = "check_keys"
    /\ UNCHANGED <<err, total_supply, quote_decimals, token_decimals, pool_id,
                   filt, resp_len, idx, best, max_liq, seen, fixture,
                   account_data, reserves, token_amt_mint, token_price_sol, sol_usd,
                   result>>

\* lines 69-70
CheckKeys ==
    /\ pc = "check_keys"
    /\ IF KeysMissing(pool_keys)
       THEN Raise("RuntimeError: Failed to fetch pool keys")
       ELSE pc' = "decimals" /\ err' = err
    /\ UNCHANGED <<steps, total_supply, quote_decimals, token_decimals, pool_id,
                   pool_keys, filt, resp_len, idx, best, max_liq, seen,
                   fixture, account_data, reserves, token_amt_mint, token_price_sol,
                   sol_usd, result>>

\* lines 72-75, then line 174: the script calls get_market_cap
LookupDecimals ==
    /\ pc = "decimals"
    /\ Did("get_account_info_mint")
    /\ \E d \in RunTokenDecimals : token_decimals' = Some(d)
    /\ pc' = "reserves"
    /\ UNCHANGED <<err, total_supply, quote_decimals, pool_id, pool_keys,
                   filt, resp_len, idx, best, max_liq, seen, fixture,
                   account_data, reserves, token_amt_mint, token_price_sol, sol_usd,
                   result>>

LookupDecimalsFails ==
    /\ pc = "decimals"
    /\ Did("get_account_info_mint")
    /\ Raise("RPCException")
    /\ UNCHANGED <<total_supply, quote_decimals, token_decimals, pool_id, pool_keys,
                   filt, resp_len, idx, best, max_liq, seen, fixture,
                   account_data, reserves, token_amt_mint, token_price_sol, sol_usd,
                   result>>

(***************************************************************************)
(* get_market_cap, lines 154-168, with _get_pool_reserves (139-147) and    *)
(* _get_sol_price_usd (149-152).                                           *)
(***************************************************************************)
\* line 141: accts[0], the account whose amount becomes base_reserve
BaseReserveAccount(keys) == keys.pool_base_token_account

\* a pool's base token account holds its base mint, its quote token account
\* its quote mint
MintHeldBy(keys, account) ==
    IF account = keys.pool_base_token_account THEN keys.base_mint ELSE keys.quote_mint

GetPoolReserves ==
    /\ pc = "reserves"
    /\ Did("get_multiple_accounts")
    /\ \E r \in ReservePairs : reserves' = Some(r)
    /\ pc' = "divide"
    /\ UNCHANGED <<err, total_supply, quote_decimals, token_decimals, pool_id,
                   pool_keys, filt, resp_len, idx, best, max_liq, seen,
                   fixture, account_data, token_amt_mint, token_price_sol, sol_usd,
                   result>>

GetPoolReservesFails ==
    /\ pc = "reserves"
    /\ Did("get_multiple_accounts")
    /\ Raise("RPCException")
    /\ UNCHANGED <<total_supply, quote_decimals, token_decimals, pool_id, pool_keys,
                   filt, resp_len, idx, best, max_liq, seen, fixture,
                   account_data, reserves, token_amt_mint, token_price_sol, sol_usd,
                   result>>

\* line 159: what the float division does with this divisor
DivisionOutcome(token_amt) ==
    IF token_amt[1] = 0 THEN "ZeroDivisionError" ELSE "ok"

\* lines 156-159
Divide ==
    /\ pc = "divide"
    /\ Did("division")
    /\ LET base_reserve  == Val(reserves)[1]
           quote_reserve == Val(reserves)[2]
           token_amt     == TokenAmt(base_reserve, Val(token_decimals))
           sol_amt       == SolAmt(quote_reserve, quote_decimals)
       IN  IF DivisionOutcome(token_amt) = "ok"
           THEN /\ token_price_sol' = Some(TokenPriceSol(sol_amt, token_amt))
                /\ pc' = "oracle"
                /\ err' = err
           ELSE /\ Raise(DivisionOutcome(token_amt))
                /\ token_price_sol' = token_price_sol
    /\ token_amt_mint' =
          Some(MintHeldBy(Val(pool_keys), BaseReserveAccount(Val(pool_keys))))
    /\ UNCHANGED <<total_supply, quote_decimals, token_decimals, pool_id, pool_keys,
                   filt, resp_len, idx, best, max_liq, seen, fixture,
                   account_data, reserves, sol_usd, result>>

\* lines 160, 150-152: the oracle answers with a Price
GetSolPriceUsd ==
    /\ pc = "oracle"
    /\ Did("dia_request")
    /\ \E p \in OraclePrices : sol_usd' = Some(p)
    /\ pc' = "finish"
    /\ UNCHANGED <<err, total_supply, quote_decimals, token_decimals, pool_id,
                   pool_keys, filt, resp_len, idx, best, max_liq, seen,
                   fixture, account_data, reserves, token_amt_mint, token_price_sol,
                   result>>

\* line 151 raises on a bad status, line 152 on a body without "Price"
GetSolPriceUsdFails ==
    /\ pc = "oracle"
    /\ Did("dia_request")
    /\ \E e \in {"HTTPError", "KeyError: Price"} : Raise(e)
    /\ UNCHANGED <<total_supply, quote_decimals, token_decimals, pool_id, pool_keys,
                   filt, resp_len, idx, best, max_liq, seen, fixture,
                   account_data, reserves, token_amt_mint, token_price_sol, sol_usd,
                   result>>

\* lines 161-168; float * None is a TypeError
Finish ==
    /\ pc = "finish"
    /\ IF IsNone(total_supply)
       THEN Raise("TypeError") /\ result' = result
       ELSE LET usd == TokenPriceUsd(Val(token_price_sol), Val(sol_usd))
            IN  /\ result' = Some([token_price_sol |-> Val(token_price_sol),
                                   token_price_usd |-> usd,
                                   market_cap_usd  |-> MarketCapUsd(usd, Val(total_supply))])
                /\ pc' = "done"
                /\ err' = err
    /\ UNCHANGED <<steps, total_supply, quote_decimals, token_decimals, pool_id,
                   pool_keys, filt, resp_len, idx, best, max_liq, seen,
                   fixture, account_data, reserves, token_amt_mint, token_price_sol,
                   sol_usd>>

(***************************************************************************)
(* The whole run.                                                          *)
(***************************************************************************)
Next ==
    \/ SupplyGiven
    \/ SupplyQueried
    \/ SupplyQueryFails
    \/ GetProgramAccounts
    \/ GetProgramAccountsFails
    \/ CandidateExtractFails
    \/ CandidateBalanceFails
    \/ CandidateScored
    \/ EndOfAccounts
    \/ CheckPool
    \/ FetchPoolKeys(RunPoolAccounts)
    \/ FetchPoolKeysFails
    \/ CheckKeys
    \/ LookupDecimals
    \/ LookupDecimalsFails
    \/ GetPoolReserves
    \/ GetPoolReservesFails
    \/ Divide
    \/ GetSolPriceUsd
    \/ GetSolPriceUsdFails
    \/ Finish

Spec == Init /\ [][Next]_vars

(***************************************************************************)
(* The pool key decoder on its own: the run stands at line 68 with a pool  *)
(* located, and the pool account may hold any fixture.                     *)
(***************************************************************************)
LocatedPool == [set |-> 1, idx |-> 1]

InitDecode ==
    /\ pc = "fetch_keys"
    /\ err = ""
    /\ steps = {"get_program_accounts", "get_token_account_balance"}
    /\ quote_decimals = DefaultQuoteDecimals
    /\ total_supply = Some(1000000)
    /\ token_decimals = None
    /\ pool_id = Some(LocatedPool)
    /\ pool_keys = None
    /\ fixture = NoFixture
    /\ account_data = <<>>
    /\ NoLocatorFrame
    /\ NothingComputed

NextDecode ==
    \/ FetchPoolKeys(Fixtures)
    \/ FetchPoolKeysFails
    \/ CheckKeys

DecodeSpec == InitDecode /\ [][NextDecode]_vars

(***************************************************************************)
(* The calculator on its own: get_market_cap is entered on a constructed   *)
(* object with any configuration of CalcConfigs.                           *)
(***************************************************************************)
InitCalc ==
    /\ pc = "reserves"
    /\ err = ""
    /\ steps = {"get_program_accounts", "get_token_account_balance",
                "get_account_info_pool", "get_account_info_mint"}
    /\ \E cfg \in CalcConfigs :
          /\ token_decimals = Some(cfg[1])
          /\ quote_decimals = cfg[2]
          /\ total_supply = Some(cfg[3])
    /\ pool_id = Some(LocatedPool)
    /\ fixture = ChainPool(LocatedPool, 0)
    /\ account_data = PoolAccountBytes(ChainPool(LocatedPool, 0))
    /\ pool_keys = DecodePoolKeys(LocatedPool, PoolAccountBytes(ChainPool(LocatedPool, 0)))
    /\ NoLocatorFrame
    /\ NothingComputed

NextCalc ==
    \/ GetPoolReserves
    \/ GetPoolReservesFails
    \/ Divide
    \/ GetSolPriceUsd
    \/ GetSolPriceUsdFails
    \/ Finish

CalcSpec == InitCalc /\ [][NextCalc]_vars

(***************************************************************************)
(* Properties of the pool locator.  They are stated where the locator has  *)
(* returned and its result has not yet been consumed (pc = "check_pool"):  *)
(* seen then lists every candidate of both filter sets, in the order of    *)
(* enumeration.                                                            *)
(***************************************************************************)
AtReturn == pc = "check_pool"

IsScored(e) == e.ok

Scored == SelectSeq(seen, IsScored)

AllSucceeded == \A j \in 1..Len(seen) : seen[j].ok

\* the largest score of a non-empty sequence of candidates
MaxScore(s) ==
    CHOOSE m \in {s[j].liq : j \in 1..Len(s)} : \A j \in 1..Len(s) : s[j].liq <= m

\* the earliest position of s holding score m
FirstWithScore(s, m) ==
    CHOOSE j \in 1..Len(s) : s[j].liq = m /\ \A k \in 1..(j - 1) : s[k].liq # m

TiedAtMax(s) ==
    /\ Len(s) > 0
    /\ Cardinality({j \in 1..Len(s) : s[j].liq = MaxScore(s)}) >= 2

\* C1: when every balance fetch of the scan succeeded, a candidate with a score
\* below another candidate's is not the pool returned; a pool is returned as
\* soon as two scores differ, and the returned pool's score is the maximum
\* over all candidates of both filter sets.
C1_MaxLiquiditySelected ==
    (AtReturn /\ AllSucceeded) =>
        /\ \A j, k \in 1..Len(seen) :
              seen[j].liq < seen[k].liq =>
                  /\ pool_id # Some(seen[j].pool)
                  /\ ~IsNone(pool_id)
        /\ ~IsNone(pool_id) =>
              \E j \in 1..Len(seen) :
                  /\ seen[j].pool = Val(pool_id)
                  /\ seen[j].liq = MaxScore(seen)

C1_Witness ==
    /\ AtReturn
    /\ AllSucceeded
    /\ \E j, k \in 1..Len(seen) :
          /\ seen[j].liq < seen[k].liq
          /\ 0 < seen[j].liq
          /\ seen[j].pool.set # seen[k].pool.set
          /\ pool_id = Some(seen[k].pool)

\* C2 as claimed: when several candidates share the maximum score, of
\* whatever value, the pool returned is the earliest of them.
C2_FirstOfTiesAnyValue ==
    (AtReturn /\ TiedAtMax(Scored)) =>
        pool_id = Some(Scored[FirstWithScore(Scored, MaxScore(Scored))].pool)

\* C2 as amended: when several candidates share the maximum score and that
\* score is positive, the pool returned is the earliest of them.
C2_FirstOfPositiveTies ==
    (AtReturn /\ TiedAtMax(Scored) /\ MaxScore(Scored) > 0) =>
        pool_id = Some(Scored[FirstWithScore(Scored, MaxScore(Scored))].pool)

C2_Witness ==
    /\ AtReturn
    /\ TiedAtMax(Scored)
    /\ MaxScore(Scored) > 0
    /\ \E j, k \in 1..Len(Scored) :
          /\ j < k
          /\ Scored[j].liq = MaxScore(Scored)
          /\ Scored[k].liq = MaxScore(Scored)
          /\ Scored[j].pool.set # Scored[k].pool.set
          /\ pool_id = Some(Scored[j].pool)

\* the scan of lines 100-117 over candidates that all get scored
RECURSIVE ScanOf(_, _, _)
ScanOf(s, b, m) ==
    IF s = <<>> THEN b
    ELSE LET upd == UpdateBest(b, m, Head(s).pool, Head(s).liq)
         IN  ScanOf(Tail(s), upd.best, upd.max_liq)

FailedNow == Len(seen') = Len(seen) + 1 /\ ~seen'[Len(seen')].ok

\* C3: a candidate whose address extraction or balance fetch fails leaves best
\* and max_liq as they were and the scan goes on with the next candidate of
\* resp.value; every candidate of a filter set has been taken up when the
\* set is left; and the pool returned is the one the same scan returns over
\* the candidates that did not fail.
C3_FailedCandidateSkipped ==
    [][ /\ FailedNow =>
              /\ best' = best
              /\ max_liq' = max_liq
              /\ pc' = "scan"
              /\ idx' = idx + 1
              /\ err' = ""
        /\ (pc = "scan" /\ pc' # "scan") =>
              Cardinality({j \in 1..Len(seen) : seen[j].pool.set = filt}) = resp_len
        /\ (pc # "check_pool" /\ pc' = "check_pool") =>
              pool_id' = ScanOf(Scored, None, 0) ]_vars

C3_Witness ==
    /\ AtReturn
    /\ \E i, j, k \in 1..Len(seen) :
          /\ i < j
          /\ j < k
          /\ seen[i].ok
          /\ seen[i].liq > 0
          /\ ~seen[j].ok
          /\ seen[j].pool.set = 1
          /\ seen[k].ok
          /\ seen[k].liq > seen[i].liq
          /\ seen[k].pool.set = 2
          /\ pool_id = Some(seen[k].pool)

\* C10: throughout the scan best is absent with max_liq = 0, or is a scored
\* candidate whose score is max_liq > 0, a score only two positive balances
\* give; the locator returns best; a scan whose scored
\* candidates all have liquidity 0 returns no pool; and a run whose locator
\* returned no pool ends in "No pool found".
C10_BestInvariant ==
    /\ pc \in {"locate", "scan", "check_pool"} =>
          \/ IsNone(best) /\ max_liq = 0
          \/ /\ ~IsNone(best)
             /\ max_liq > 0
             /\ \E j \in 1..Len(seen) :
                   seen[j].ok /\ seen[j].pool = Val(best) /\ seen[j].liq = max_liq
             /\ \A bal_base \in Balances, bal_quote \in Balances :
                   Liquidity(bal_base, bal_quote) = max_liq =>
                       bal_base > 0 /\ bal_quote > 0
    /\ AtReturn => pool_id = best
    /\ (AtReturn /\ \A j \in 1..Len(seen) : seen[j].ok => seen[j].liq = 0) =>
          IsNone(pool_id)
    /\ (IsNone(pool_id) /\ pc \notin {"start", "locate", "scan", "check_pool"}
          /\ "get_program_accounts" \in steps) =>
          pc = "aborted" /\ err = "RuntimeError: No pool found"

C10_Witness ==
    /\ AtReturn
    /\ IsNone(pool_id)
    /\ \E j, k \in 1..Len(seen) :
          /\ seen[j].ok
          /\ seen[k].ok
          /\ seen[j].pool.set # seen[k].pool.set

(***************************************************************************)
(* Properties of the constructor.                                          *)
(***************************************************************************)
AfterConstructor ==
    {"get_account_info_mint", "get_multiple_accounts", "division", "dia_request"}

LocatorReturned ==
    /\ pc \notin {"start", "locate", "scan", "check_pool"}
    /\ "get_program_accounts" \in steps

\* C5: once the locator has returned no pool the run is aborted with "No pool
\* found" and the pool account is never fetched; once the key decoder has
\* returned no keys the run is aborted with "Failed to fetch pool keys"; in
\* both cases there is no decimals lookup, no reserve read, no division, no
\* oracle request and no MarketCapData.
C5_AbortOnMissingPoolOrKeys ==
    /\ (LocatorReturned /\ IsNone(pool_id)) =>
          /\ pc = "aborted"
          /\ err = "RuntimeError: No pool found"
          /\ "get_account_info_pool" \notin steps
          /\ steps \cap AfterConstructor = {}
          /\ IsNone(result)
    /\ ("get_account_info_pool" \in steps /\ pc # "check_keys" /\ IsNone(pool_keys)) =>
          /\ pc = "aborted"
          /\ err = "RuntimeError: Failed to fetch pool keys"
          /\ steps \cap AfterConstructor = {}
          /\ IsNone(token_decimals)
          /\ IsNone(result)

C5_Witness ==
    /\ pc = "aborted"
    /\ err = "RuntimeError: Failed to fetch pool keys"
    /\ Len(account_data) > 0
    /\ fixture.delta < 0

\* C6 as claimed: a supply that is missing or zero once the supply resolver
\* is done means the run is aborted, and no operation after the supply
\* resolver has been performed.
C6_AbortOnMissingOrZeroSupply ==
    (pc # "start" /\ (IsNone(total_supply) \/ total_supply = Some(0))) =>
        /\ pc = "aborted"
        /\ steps = {}

(***************************************************************************)
(* Properties of get_market_cap.                                           *)
(***************************************************************************)
\* C4 as claimed: a base reserve read as 0 ends the run in the domain error
\* "empty pool", never in a raw division fault, and without a MarketCapData.
C4_EmptyPoolReported ==
    (~IsNone(reserves) /\ Val(reserves)[1] = 0 /\ pc # "divide") =>
        /\ pc = "aborted"
        /\ err = "EmptyPoolError"
        /\ IsNone(result)

\* C9 as claimed: token_amt is computed from the reserve account that holds
\* the target token, whichever filter set the pool came from.
C9_TokenAmountFromTargetReserve ==
    ~IsNone(token_amt_mint) => Val(token_amt_mint) = MINT

ExampleRun ==
    /\ reserves = Some(<<1000000000, 2000000000>>)
    /\ token_decimals = Some(9)
    /\ quote_decimals = 9
    /\ sol_usd = Some(100)
    /\ total_supply = Some(1000000)

\* quote_reserve * 10^token_decimals / (base_reserve * 10^quote_decimals)
ReferencePrice ==
    RatMul(Rat(Val(reserves)[2], Val(reserves)[1]),
           Rat(Pow10(Val(token_decimals)), Pow10(quote_decimals)))

\* C7: a MarketCapData is only returned for base_reserve > 0, and then
\* token_price_sol is exactly (quote_reserve / 10^quote_decimals) /
\* (base_reserve / 10^token_decimals), token_price_usd is that times the
\* oracle price and market_cap_usd that times the total supply; the example
\* of the specification gives 2, 200 and 200000000.
C7_ExactRatios ==
    pc = "done" =>
        /\ Val(reserves)[1] > 0
        /\ Val(result).token_price_sol = ReferencePrice
        /\ Val(result).token_price_usd = RatMul(ReferencePrice, <<Val(sol_usd), 1>>)
        /\ Val(result).market_cap_usd =
              RatMul(RatMul(ReferencePrice, <<Val(sol_usd), 1>>),
                     Rat(Val(total_supply), 1))
        /\ ExampleRun =>
              Val(result) = [token_price_sol |-> <<2, 1>>,
                             token_price_usd |-> <<200, 1>>,
                             market_cap_usd  |-> <<200000000, 1>>]

C7_Witness ==
    /\ pc = "done"
    /\ ExampleRun
    /\ Val(result).market_cap_usd = <<200000000, 1>>

(***************************************************************************)
(* Properties of the pool key decoder.                                     *)
(***************************************************************************)
Decoded == pc = "check_keys" /\ ~IsNone(pool_keys)

\* C8 as claimed: the PoolKeys decoded from a buffer built from known field
\* values has base_mint, quote_mint, pool_base_token_account,
\* pool_quote_token_account and creator equal to the buffer's base-mint,
\* quote-mint, base-reserve-account, quote-reserve-account and creator fields.
C8_RoundTripCreator ==
    Decoded =>
        /\ Val(pool_keys).base_mint = fixture.base_mint
        /\ Val(pool_keys).quote_mint = fixture.quote_mint
        /\ Val(pool_keys).pool_base_token_account = fixture.pool_base_token_account
        /\ Val(pool_keys).pool_quote_token_account = fixture.pool_quote_token_account
        /\ Val(pool_keys).creator = fixture.creator

\* C8 as amended: a buffer holding the whole record is decoded, and the
\* PoolKeys has base_mint, quote_mint, pool_base_token_account and
\* pool_quote_token_account equal to the buffer's fields of those names and
\* creator equal to the buffer's trailing coin-creator field.
C8_RoundTripCoinCreator ==
    /\ Decoded =>
          /\ Val(pool_keys).base_mint = fixture.base_mint
          /\ Val(pool_keys).quote_mint = fixture.quote_mint
          /\ Val(pool_keys).pool_base_token_account = fixture.pool_base_token_account
          /\ Val(pool_keys).pool_quote_token_account = fixture.pool_quote_token_account
          /\ Val(pool_keys).creator = fixture.coin_creator
    /\ (pc = "check_keys" /\ account_data # <<>> /\ fixture.delta >= 0) =>
          ~IsNone(pool_keys)

C8_Witness ==
    /\ Decoded
    /\ fixture.creator # fixture.coin_creator
    /\ fixture.base_mint # fixture.quote_mint
    /\ fixture.pool_base_token_account # fixture.pool_quote_token_account
    /\ fixture.index > 255
    /\ Val(pool_keys).creator = fixture.coin_creator
    /\ Val(pool_keys).base_mint = fixture.base_mint

====
